---- MODULE Spec2Model ----
(***************************************************************************)
(* A model of png_to_stl.py: the two mesh builders (generate_binary_mesh,  *)
(* generate_continuous_mesh), the geometry kernel (compute_normal,         *)
(* add_triangle) and the ASCII STL writer of main.                         *)
(*                                                                         *)
(* Coordinates are exact integers: the inputs are drawn so that every      *)
(* division of the code (x_size / cols, x_size / (cols - 1),               *)
(* img / 255.0 * extrude_height) is exact.  A vertex is <<x, y, z>>, a     *)
(* facet is <<normal, v1, v2, v3>> as in add_triangle.  The unit normal    *)
(* normal / norm is represented by the primitive integer vector of the     *)
(* same direction (the cross product divided by the gcd of its             *)
(* components), which IS the unit normal whenever the normal is parallel   *)
(* to an axis, and <<0, 0, 0>> for a degenerate triangle.                  *)
(***************************************************************************)
EXTENDS Integers, Sequences, FiniteSets

VARIABLES args, img_array, pc, j, i, k, facets, file_state, file_lines

vars == <<args, img_array, pc, j, i, k, facets, file_state, file_lines>>

(***************************************************************************)
(* Bounds of the model and the inputs drawn.                               *)
(***************************************************************************)
MaxRows == 3
MaxCols == 3
MaxCells == 9
MaxCfgRows == 2
MaxCfgCols == 2

\* intensities of the grayscale image ("L" mode: 0..255)
Pixels == {0, 255}

\* argparse defaults of main
DefaultXSize == 120
DefaultYSize == 120
DefaultExtrudeHeight == 15

\* the configuration of a run whose parameters are all valid
\* (the threshold is read in binary mode only: 255 makes the intensity 255
\* equal to it, 0 puts every intensity at or above it)
ValidArgs ==
    [x_size : {DefaultXSize}, y_size : {DefaultYSize},
     extrude_height : {DefaultExtrudeHeight},
     binary : {TRUE}, threshold : {0, 255}]
    \cup
    [x_size : {DefaultXSize}, y_size : {DefaultYSize},
     extrude_height : {DefaultExtrudeHeight},
     binary : {FALSE}, threshold : {255}]

\* configurations with zero, negative and out-of-range parameters as well
AnyArgs ==
    [x_size : {-DefaultXSize, 0, DefaultXSize},
     y_size : {-DefaultYSize, 0, DefaultYSize},
     extrude_height : {-DefaultExtrudeHeight, 0, DefaultExtrudeHeight},
     binary : BOOLEAN, threshold : {-1, 255, 256}]

\* np.array(img): a rows x cols array of intensities, indexed [row, col];
\* the images of at most R rows, C columns and MaxCells pixels
Images(R, C) ==
    UNION { [rows : {rc[1]}, cols : {rc[2]},
             px : [(0 .. rc[1] - 1) \X (0 .. rc[2] - 1) -> Pixels]] :
            rc \in {d \in (1 .. R) \X (1 .. C) : d[1] * d[2] <= MaxCells} }

(***************************************************************************)
(* Geometry kernel.                                                        *)
(***************************************************************************)
Abs(n) == IF n < 0 THEN -n ELSE n

RECURSIVE Gcd(_, _)
Gcd(a, b) == IF b = 0 THEN a ELSE Gcd(b, a % b)

Sub(a, b) == <<a[1] - b[1], a[2] - b[2], a[3] - b[3]>>

Cross(a, b) ==
    <<a[2] * b[3] - a[3] * b[2],
      a[3] * b[1] - a[1] * b[3],
      a[1] * b[2] - a[2] * b[1]>>

\* normal / norm, for a normal that is not the zero vector
Unit(n) ==
    LET g == Gcd(Gcd(Abs(n[1]), Abs(n[2])), Abs(n[3]))
    IN  <<n[1] \div g, n[2] \div g, n[3] \div g>>

compute_normal(v1, v2, v3) ==
    LET normal == Cross(Sub(v2, v1), Sub(v3, v1))
    IN  IF normal = <<0, 0, 0>> THEN <<0, 0, 0>> ELSE Unit(normal)

\* mutant: the facet is inserted at the front of the list
add_triangle_Prepends(fs, v1, v2, v3) ==
    <<<<compute_normal(v1, v2, v3), v1, v2, v3>>>> \o fs

add_triangle(fs, v1, v2, v3) ==
    Append(fs, <<compute_normal(v1, v2, v3), v1, v2, v3>>)

(***************************************************************************)
(* generate_binary_mesh.                                                   *)
(***************************************************************************)
\* mutant: the solidity test is not strict
IsSolid_AtMost(a, img, r, c) == img.px[<<r, c>>] <= a.threshold

IsSolid(a, img, r, c) == img.px[<<r, c>>] < a.threshold

LeftExposed(a, img, r, c) ==
    c = 0 \/ img.px[<<r, c - 1>>] >= a.threshold

RightExposed(a, img, r, c) ==
    c = img.cols - 1 \/ img.px[<<r, c + 1>>] >= a.threshold

TopExposed(a, img, r, c) ==
    r = 0 \/ img.px[<<r - 1, c>>] >= a.threshold

BottomExposed(a, img, r, c) ==
    r = img.rows - 1 \/ img.px[<<r + 1, c>>] >= a.threshold

BinaryXScale(a, img) == a.x_size \div img.cols
BinaryYScale(a, img) == a.y_size \div img.rows

\* the add_triangle calls of one solid cell, in program order, each as the
\* triple of vertices passed
CellTriangles(a, img, r, c) ==
    LET x0 == c * BinaryXScale(a, img)
        x1 == (c + 1) * BinaryXScale(a, img)
        y0 == r * BinaryYScale(a, img)
        y1 == (r + 1) * BinaryYScale(a, img)
        z_top == a.extrude_height
        z_bottom == 0
        top_v0 == <<x0, y0, z_top>>
        top_v1 == <<x1, y0, z_top>>
        top_v2 == <<x1, y1, z_top>>
        top_v3 == <<x0, y1, z_top>>
        bot_v0 == <<x0, y0, z_bottom>>
        bot_v1 == <<x1, y0, z_bottom>>
        bot_v2 == <<x1, y1, z_bottom>>
        bot_v3 == <<x0, y1, z_bottom>>
        faces == << <<top_v0, top_v1, top_v2>>, <<top_v0, top_v2, top_v3>>,
                    <<bot_v2, bot_v1, bot_v0>>, <<bot_v3, bot_v2, bot_v0>> >>
        left ==
            LET v_top1 == <<x0, y0, z_top>>
                v_top2 == <<x0, y1, z_top>>
                v_bot1 == <<x0, y0, z_bottom>>
                v_bot2 == <<x0, y1, z_bottom>>
            IN  IF LeftExposed(a, img, r, c)
                THEN << <<v_top2, v_top1, v_bot1>>, <<v_top2, v_bot1, v_bot2>> >>
                ELSE << >>
        right ==
            LET v_top1 == <<x1, y0, z_top>>
                v_top2 == <<x1, y1, z_top>>
                v_bot1 == <<x1, y0, z_bottom>>
                v_bot2 == <<x1, y1, z_bottom>>
            IN  IF RightExposed(a, img, r, c)
                THEN << <<v_top1, v_top2, v_bot1>>, <<v_top2, v_bot2, v_bot1>> >>
                ELSE << >>
        top ==
            LET v_top1 == <<x0, y0, z_top>>
                v_top2 == <<x1, y0, z_top>>
                v_bot1 == <<x0, y0, z_bottom>>
                v_bot2 == <<x1, y0, z_bottom>>
            IN  IF TopExposed(a, img, r, c)
                THEN << <<v_top2, v_top1, v_bot1>>, <<v_top2, v_bot1, v_bot2>> >>
                ELSE << >>
        bottom ==
            LET v_top1 == <<x0, y1, z_top>>
                v_top2 == <<x1, y1, z_top>>
                v_bot1 == <<x0, y1, z_bottom>>
                v_bot2 == <<x1, y1, z_bottom>>
            IN  IF BottomExposed(a, img, r, c)
                THEN << <<v_top1, v_top2, v_bot1>>, <<v_top2, v_bot2, v_bot1>> >>
                ELSE << >>
    IN  faces \o left \o right \o top \o bottom

(***************************************************************************)
(* generate_continuous_mesh.                                               *)
(***************************************************************************)
ContinuousXScale(a, img) == a.x_size \div (img.cols - 1)
ContinuousYScale(a, img) == a.y_size \div (img.rows - 1)

\* z_array = (img_array / 255.0) * extrude_height
z_array(a, img, r, c) == (img.px[<<r, c>>] * a.extrude_height) \div 255

top_vertices(a, img, r, c) ==
    <<c * ContinuousXScale(a, img), r * ContinuousYScale(a, img),
      z_array(a, img, r, c)>>

Ground(v) == <<v[1], v[2], 0>>

\* the two add_triangle calls of one iteration of the loop the program is
\* in (phase), at loop indices r, c
PhaseTriangles(a, img, phase, r, c) ==
    CASE phase = "top" ->
            LET v1 == top_vertices(a, img, r, c)
                v2 == top_vertices(a, img, r, c + 1)
                v3 == top_vertices(a, img, r + 1, c)
                v4 == top_vertices(a, img, r + 1, c + 1)
            IN  << <<v1, v2, v3>>, <<v2, v4, v3>> >>
      [] phase = "bottom" ->
            LET bottom_top_left == <<0, 0, 0>>
                bottom_top_right == <<a.x_size, 0, 0>>
                bottom_bottom_left == <<0, a.y_size, 0>>
                bottom_bottom_right == <<a.x_size, a.y_size, 0>>
            IN  << <<bottom_top_left, bottom_top_right, bottom_bottom_left>>,
                   <<bottom_top_right, bottom_bottom_right,
                     bottom_bottom_left>> >>
      [] phase = "wall_top" ->
            LET v_top1 == top_vertices(a, img, 0, c)
                v_top2 == top_vertices(a, img, 0, c + 1)
                v_bot1 == Ground(v_top1)
                v_bot2 == Ground(v_top2)
            IN  << <<v_top1, v_top2, v_bot1>>, <<v_top2, v_bot2, v_bot1>> >>
      [] phase = "wall_bottom" ->
            LET v_top1 == top_vertices(a, img, img.rows - 1, c)
                v_top2 == top_vertices(a, img, img.rows - 1, c + 1)
                v_bot1 == Ground(v_top1)
                v_bot2 == Ground(v_top2)
            IN  << <<v_top2, v_top1, v_bot1>>, <<v_top2, v_bot1, v_bot2>> >>
      [] phase = "wall_left" ->
            LET v_top1 == top_vertices(a, img, r, 0)
                v_top2 == top_vertices(a, img, r + 1, 0)
                v_bot1 == Ground(v_top1)
                v_bot2 == Ground(v_top2)
            IN  << <<v_top2, v_top1, v_bot1>>, <<v_top2, v_bot1, v_bot2>> >>
      [] phase = "wall_right" ->
            LET v_top1 == top_vertices(a, img, r, img.cols - 1)
                v_top2 == top_vertices(a, img, r + 1, img.cols - 1)
                v_bot1 == Ground(v_top1)
                v_bot2 == Ground(v_top2)
            IN  << <<v_top1, v_top2, v_bot1>>, <<v_top2, v_bot2, v_bot1>> >>

ContinuousPhases ==
    {"top", "bottom", "wall_top", "wall_bottom", "wall_left", "wall_right"}

\* mutant: the loop over the boundary segments of row rows-1 is missing
NextPosition_SkipsBottomEdge(img, phase, r, c) ==
    CASE phase = "top" ->
            IF c + 1 < img.cols - 1 THEN <<"top", r, c + 1>>
            ELSE IF r + 1 < img.rows - 1 THEN <<"top", r + 1, 0>>
            ELSE <<"bottom", 0, 0>>
      [] phase = "bottom" -> <<"wall_top", 0, 0>>
      [] phase = "wall_top" ->
            IF c + 1 < img.cols - 1 THEN <<"wall_top", 0, c + 1>>
            ELSE <<"wall_left", 0, 0>>
      [] phase = "wall_bottom" -> <<"wall_left", 0, 0>>
      [] phase = "wall_left" ->
            IF r + 1 < img.rows - 1 THEN <<"wall_left", r + 1, 0>>
            ELSE <<"wall_right", 0, img.cols - 1>>
      [] phase = "wall_right" ->
            IF r + 1 < img.rows - 1 THEN <<"wall_right", r + 1, c>>
            ELSE <<"write", 0, 0>>

\* the loop position after the iteration at (phase, r, c): <<phase, r, c>>
NextPosition(img, phase, r, c) ==
    CASE phase = "top" ->
            IF c + 1 < img.cols - 1 THEN <<"top", r, c + 1>>
            ELSE IF r + 1 < img.rows - 1 THEN <<"top", r + 1, 0>>
            ELSE <<"bottom", 0, 0>>
      [] phase = "bottom" -> <<"wall_top", 0, 0>>
      [] phase = "wall_top" ->
            IF c + 1 < img.cols - 1 THEN <<"wall_top", 0, c + 1>>
            ELSE <<"wall_bottom", img.rows - 1, 0>>
      [] phase = "wall_bottom" ->
            IF c + 1 < img.cols - 1 THEN <<"wall_bottom", r, c + 1>>
            ELSE <<"wall_left", 0, 0>>
      [] phase = "wall_left" ->
            IF r + 1 < img.rows - 1 THEN <<"wall_left", r + 1, 0>>
            ELSE <<"wall_right", 0, img.cols - 1>>
      [] phase = "wall_right" ->
            IF r + 1 < img.rows - 1 THEN <<"wall_right", r + 1, c>>
            ELSE <<"write", 0, 0>>

(***************************************************************************)
(* The writer of main.                                                     *)
(***************************************************************************)
\* "{:.6f}".format(x): the numeral, as its count of millionths
Fmt6(x) == x * 1000000

FmtVec(v) == <<Fmt6(v[1]), Fmt6(v[2]), Fmt6(v[3])>>

\* the seven lines written for one facet
FacetBlock(f) ==
    << <<"  facet normal", FmtVec(f[1])>>,
       "    outer loop",
       <<"      vertex", FmtVec(f[2])>>,
       <<"      vertex", FmtVec(f[3])>>,
       <<"      vertex", FmtVec(f[4])>>,
       "    endloop",
       "  endfacet" >>

\* facets written so far by the loop over facets
FacetsWritten == Len(file_lines) - 1

(***************************************************************************)
(* Initial states: main has parsed the arguments and loaded the image.     *)
(***************************************************************************)
InitWith(configs, images) ==
    /\ args \in configs
    /\ img_array \in images
    /\ pc = "main"
    /\ j = 0
    /\ i = 0
    /\ k = 0
    /\ facets = << >>
    /\ file_state = "none"
    /\ file_lines = << >>

Init == InitWith(ValidArgs, Images(MaxRows, MaxCols))

InitConfig == InitWith(AnyArgs, Images(MaxCfgRows, MaxCfgCols))

(***************************************************************************)
(* Actions.                                                                *)
(***************************************************************************)
\* main calls generate_binary_mesh: facets = [], the scales, the loops start
BinaryBegin ==
    /\ pc = "main"
    /\ args.binary
    /\ pc' = "binary"
    /\ j' = 0
    /\ i' = 0
    /\ k' = 0
    /\ facets' = << >>
    /\ UNCHANGED <<args, img_array, file_state, file_lines>>

\* the next add_triangle call of the solid cell (j, i)
BinaryAddTriangle ==
    /\ pc = "binary"
    /\ IsSolid(args, img_array, j, i)
    /\ k < Len(CellTriangles(args, img_array, j, i))
    /\ LET t == CellTriangles(args, img_array, j, i)[k + 1]
       IN  facets' = add_triangle(facets, t[1], t[2], t[3])
    /\ k' = k + 1
    /\ UNCHANGED <<args, img_array, pc, j, i, file_state, file_lines>>

\* the loops over i and j advance; after the last cell facets is returned
BinaryNextCell ==
    /\ pc = "binary"
    /\ \/ ~IsSolid(args, img_array, j, i)
       \/ k = Len(CellTriangles(args, img_array, j, i))
    /\ k' = 0
    /\ IF i + 1 < img_array.cols
       THEN /\ i' = i + 1
            /\ UNCHANGED <<j, pc>>
       ELSE IF j + 1 < img_array.rows
            THEN /\ j' = j + 1
                 /\ i' = 0
                 /\ UNCHANGED pc
            ELSE /\ pc' = "write"
                 /\ UNCHANGED <<j, i>>
    /\ UNCHANGED <<args, img_array, facets, file_state, file_lines>>

\* mutant: a grid too small for the scales yields an empty mesh, no error
ContinuousBegin_ReturnsEmpty ==
    /\ pc = "main"
    /\ ~args.binary
    /\ IF img_array.cols - 1 = 0 \/ img_array.rows - 1 = 0
       THEN pc' = "write"
       ELSE pc' = "top"
    /\ facets' = << >>
    /\ j' = 0
    /\ i' = 0
    /\ k' = 0
    /\ UNCHANGED <<args, img_array, file_state, file_lines>>

\* main calls generate_continuous_mesh: the scales, z_array, top_vertices,
\* facets = []; x_size / (cols - 1) or y_size / (rows - 1) raises
\* ZeroDivisionError, which nothing catches
ContinuousBegin ==
    /\ pc = "main"
    /\ ~args.binary
    /\ IF img_array.cols - 1 = 0 \/ img_array.rows - 1 = 0
       THEN /\ pc' = "error"
            /\ UNCHANGED facets
       ELSE /\ pc' = "top"
            /\ facets' = << >>
    /\ j' = 0
    /\ i' = 0
    /\ k' = 0
    /\ UNCHANGED <<args, img_array, file_state, file_lines>>

\* the next add_triangle call of the current loop iteration
ContinuousAddTriangle ==
    /\ pc \in ContinuousPhases
    /\ k < 2
    /\ LET t == PhaseTriangles(args, img_array, pc, j, i)[k + 1]
       IN  facets' = add_triangle(facets, t[1], t[2], t[3])
    /\ k' = k + 1
    /\ UNCHANGED <<args, img_array, pc, j, i, file_state, file_lines>>

\* the current loop advances, or the next loop starts, or facets is returned
ContinuousAdvance ==
    /\ pc \in ContinuousPhases
    /\ k = 2
    /\ LET n == NextPosition(img_array, pc, j, i)
       IN  /\ pc' = n[1]
           /\ j' = n[2]
           /\ i' = n[3]
    /\ k' = 0
    /\ UNCHANGED <<args, img_array, facets, file_state, file_lines>>

\* open(args.output_stl, "w") and the header line
OpenOutput ==
    /\ pc = "write"
    /\ file_state' = "open"
    /\ file_lines' = <<"solid model">>
    /\ pc' = "write_loop"
    /\ UNCHANGED <<args, img_array, j, i, k, facets>>

\* one iteration of the loop over facets
WriteFacet ==
    /\ pc = "write_loop"
    /\ FacetsWritten < Len(facets)
    /\ file_lines' = Append(file_lines, FacetBlock(facets[FacetsWritten + 1]))
    /\ UNCHANGED <<args, img_array, pc, j, i, k, facets, file_state>>

\* the footer line and the end of the with block
CloseOutput ==
    /\ pc = "write_loop"
    /\ FacetsWritten = Len(facets)
    /\ file_lines' = Append(file_lines, "endsolid model")
    /\ file_state' = "closed"
    /\ pc' = "done"
    /\ UNCHANGED <<args, img_array, j, i, k, facets>>

Next ==
    \/ BinaryBegin
    \/ BinaryAddTriangle
    \/ BinaryNextCell
    \/ ContinuousBegin
    \/ ContinuousAddTriangle
    \/ ContinuousAdvance
    \/ OpenOutput
    \/ WriteFacet
    \/ CloseOutput

Spec == Init /\ [][Next]_vars

SpecConfig == InitConfig /\ [][Next]_vars

(***************************************************************************)
(* Vocabulary of the properties: stated from the grid and the              *)
(* configuration, not from the builders' definitions.                      *)
(***************************************************************************)
Rows == img_array.rows
Cols == img_array.cols
Px(r, c) == img_array.px[<<r, c>>]
InGrid(r, c) == r \in 0 .. Rows - 1 /\ c \in 0 .. Cols - 1
Cells == (0 .. Rows - 1) \X (0 .. Cols - 1)

\* the builder has returned the mesh to main
Returned == pc \in {"write", "write_loop", "done"}

Normal(f) == f[1]
Vertices(f) == {f[2], f[3], f[4]}
LastFacet == facets[Len(facets)]

\* the edges of a facet: unordered pairs of distinct consecutive vertices
FacetEdges(f) ==
    {e \in {{f[2], f[3]}, {f[3], f[4]}, {f[4], f[2]}} : Cardinality(e) = 2}

MeshEdges == UNION {FacetEdges(facets[n]) : n \in DOMAIN facets}

\* the number of facets that share the edge e
EdgeCount(e) == Cardinality({n \in DOMAIN facets : e \in FacetEdges(facets[n])})

\* binary mode: the box of cell (r, c)
CellW == args.x_size \div Cols
CellH == args.y_size \div Rows
SolidCell(r, c) == Px(r, c) < args.threshold

\* the four sides in the order the builder tests them (left, right, top row,
\* bottom row): direction to the neighbour and outward normal
SideSeq ==
    << [dr |-> 0, dc |-> -1, n |-> <<-1, 0, 0>>],
       [dr |-> 0, dc |-> 1, n |-> <<1, 0, 0>>],
       [dr |-> -1, dc |-> 0, n |-> <<0, -1, 0>>],
       [dr |-> 1, dc |-> 0, n |-> <<0, 1, 0>>] >>

Sides == {SideSeq[n] : n \in 1 .. 4}

Exposed(r, c, s) ==
    \/ ~InGrid(r + s.dr, c + s.dc)
    \/ Px(r + s.dr, c + s.dc) >= args.threshold

\* the vertex v lies in the plane of side s of cell (r, c), within the cell
OnSide(v, r, c, s) ==
    /\ c * CellW <= v[1] /\ v[1] <= (c + 1) * CellW
    /\ r * CellH <= v[2] /\ v[2] <= (r + 1) * CellH
    /\ s.dc = -1 => v[1] = c * CellW
    /\ s.dc = 1 => v[1] = (c + 1) * CellW
    /\ s.dr = -1 => v[2] = r * CellH
    /\ s.dr = 1 => v[2] = (r + 1) * CellH

\* an edge of the outer silhouette: it lies in a side face that separates a
\* solid cell from a non-solid or absent neighbour
OnSilhouette(e) ==
    \E rc \in Cells, s \in Sides :
        /\ SolidCell(rc[1], rc[2])
        /\ Exposed(rc[1], rc[2], s)
        /\ \A v \in e : OnSide(v, rc[1], rc[2], s)

\* C1 (as claimed): in the facet list returned by generate_binary_mesh every
\* edge is shared by exactly one or two facets, never three or more, and an
\* edge of a single facet lies on the outer silhouette; for every pattern of
\* solid cells, two solid cells touching only at a corner included.
C1_BinaryClosure ==
    (args.binary /\ pc = "write") =>
        \A e \in MeshEdges :
            /\ EdgeCount(e) \in {1, 2}
            /\ EdgeCount(e) = 1 => OnSilhouette(e)

\* the outward normal of a facet of the box of cell (r, c), by the face of
\* the box its three vertices lie in
BoxOutward(f, r, c) ==
    IF \A v \in Vertices(f) : v[3] = args.extrude_height THEN <<0, 0, 1>>
    ELSE IF \A v \in Vertices(f) : v[3] = 0 THEN <<0, 0, -1>>
    ELSE IF \A v \in Vertices(f) : v[1] = c * CellW THEN <<-1, 0, 0>>
    ELSE IF \A v \in Vertices(f) : v[1] = (c + 1) * CellW THEN <<1, 0, 0>>
    ELSE IF \A v \in Vertices(f) : v[2] = r * CellH THEN <<0, -1, 0>>
    ELSE <<0, 1, 0>>

\* C2 (as claimed): every facet emitted for a solid cell has the outward
\* normal of its face under its stored winding: top +Z, bottom -Z, left
\* wall -X, right wall +X, top-row wall -Y, bottom-row wall +Y.
C2_BinaryOrientation ==
    (pc = "binary" /\ k > 0) => Normal(LastFacet) = BoxOutward(LastFacet, j, i)

\* continuous mode: the number of top-surface triangles
TopCount == 2 * (Rows - 1) * (Cols - 1)

Corners ==
    {<<0, 0, 0>>, <<args.x_size, 0, 0>>, <<0, args.y_size, 0>>,
     <<args.x_size, args.y_size, 0>>}

\* C3 (as claimed): the two bottom triangles of generate_continuous_mesh lie
\* at z = 0, together cover the rectangle [0, x_size] x [0, y_size] (each
\* spans three corners, the two share a diagonal and use all four corners),
\* and the stored winding of each gives the normal -Z.
C3_ContinuousBottom ==
    (pc = "bottom" /\ k = 2) =>
        LET b1 == facets[TopCount + 1]
            b2 == facets[TopCount + 2]
        IN  /\ Len(facets) = TopCount + 2
            /\ Vertices(b1) \subseteq Corners /\ Cardinality(Vertices(b1)) = 3
            /\ Vertices(b2) \subseteq Corners /\ Cardinality(Vertices(b2)) = 3
            /\ Vertices(b1) \cup Vertices(b2) = Corners
            /\ Normal(b1) = <<0, 0, -1>>
            /\ Normal(b2) = <<0, 0, -1>>

\* the normal pointing away from the grid interior, for each boundary loop
WallOutward ==
    [wall_top |-> <<0, -1, 0>>, wall_bottom |-> <<0, 1, 0>>,
     wall_left |-> <<-1, 0, 0>>, wall_right |-> <<1, 0, 0>>]

WallPhases == {"wall_top", "wall_bottom", "wall_left", "wall_right"}

\* the grid positions of the two top vertices of the boundary segment the
\* program is at
SegmentEnds ==
    CASE pc = "wall_top" -> {<<0, i>>, <<0, i + 1>>}
      [] pc = "wall_bottom" -> {<<Rows - 1, i>>, <<Rows - 1, i + 1>>}
      [] pc = "wall_left" -> {<<j, 0>>, <<j + 1, 0>>}
      [] pc = "wall_right" -> {<<j, Cols - 1>>, <<j + 1, Cols - 1>>}

\* C4 (as claimed): for a boundary segment whose two top vertices have
\* positive height, both wall triangles have the normal pointing away from
\* the grid interior: -Y along row 0, +Y along row rows-1, -X along column
\* 0, +X along column cols-1.
C4_ContinuousWallOrientation ==
    (/\ pc \in WallPhases
     /\ k > 0
     /\ \A rc \in SegmentEnds : Px(rc[1], rc[2]) * args.extrude_height > 0)
        => Normal(LastFacet) = WallOutward[pc]

\* C5 (as claimed): for rows >= 2 and cols >= 2 the mesh returned by
\* generate_continuous_mesh is closed: every edge is shared by exactly two
\* facets (so every boundary edge of the bottom face is the ground edge of a
\* wall facet and conversely).
C5_ContinuousClosure ==
    (~args.binary /\ pc = "write") =>
        \A e \in MeshEdges : EdgeCount(e) = 2

\* invalid configuration, as section 7 of the specification defines it
InvalidConfiguration ==
    \/ args.x_size <= 0
    \/ args.y_size <= 0
    \/ args.extrude_height <= 0
    \/ args.threshold < 0
    \/ args.threshold > 255

\* C8 (as claimed): a run with an invalid configuration ends in an error:
\* it never generates a facet, never opens the output and never proceeds
\* to build and serialize a mesh.
C8_InvalidConfigurationRejected ==
    InvalidConfiguration =>
        /\ pc \in {"main", "error"}
        /\ facets = << >>
        /\ file_state = "none"
        /\ file_lines = << >>

\* a facet whose three vertices have the same height
Horizontal(f) == \A u, v \in Vertices(f) : u[3] = v[3]

\* the facet f lies in side s of the box of cell (r, c)
WallOf(f, r, c, s) ==
    /\ ~Horizontal(f)
    /\ \A v \in Vertices(f) : OnSide(v, r, c, s)

ExposedSides(r, c) == Cardinality({s \in Sides : Exposed(r, c, s)})

\* the facets cell (r, c) is to emit: 4 + 2k for a solid cell with k exposed
\* sides, none for a cell that is not solid
ExpectedFacets(r, c) ==
    IF SolidCell(r, c) THEN 4 + 2 * ExposedSides(r, c) ELSE 0

\* the facets the first n cells of the row-major scan are to emit
RECURSIVE FacetsBefore(_)
FacetsBefore(n) ==
    IF n = 0 THEN 0
    ELSE FacetsBefore(n - 1) + ExpectedFacets((n - 1) \div Cols, (n - 1) % Cols)

\* C6: a cell emits facets iff its intensity is below the threshold (an
\* intensity equal to the threshold emits none); a solid cell emits exactly
\* 4 top/bottom triangles and then a 2-triangle wall for exactly the sides
\* whose neighbour is outside the grid or at or above the threshold, 4 + 2k
\* facets in all; every wall lies in an exposed side, so none lies between
\* two adjacent solid cells.  (At every point of the scan the facet list
\* holds the expected facets of the cells scanned plus the k emitted for
\* the current cell, which fixes the count of each cell.)
C6_ExposureRule ==
    /\ pc = "binary" =>
        LET base == FacetsBefore(j * Cols + i)
        IN  /\ InGrid(j, i)
            /\ k <= ExpectedFacets(j, i)
            /\ Len(facets) = base + k
            /\ \A m \in 1 .. k : Horizontal(facets[base + m]) <=> m <= 4
            /\ \A m \in 5 .. k :
                   \E s \in Sides :
                       Exposed(j, i, s) /\ WallOf(facets[base + m], j, i, s)
    /\ (args.binary /\ Returned) => Len(facets) = FacetsBefore(Rows * Cols)

\* C6 witness: in the 3x3 all-solid grid the scan has just left the centre
\* cell: corner 8, edge 6, corner 8, edge 6 and the centre 4 (no wall).
C6_Witness ==
    /\ pc = "binary"
    /\ Rows = 3 /\ Cols = 3
    /\ \A rc \in Cells : SolidCell(rc[1], rc[2])
    /\ j = 1 /\ i = 2 /\ k = 0
    /\ Len(facets) = 8 + 6 + 8 + 6 + 4
    /\ ExposedSides(1, 1) = 0
    /\ ExposedSides(0, 0) = 2
    /\ ExposedSides(0, 1) = 1

\* C7: for rows >= 2 and cols >= 2, whatever the intensities,
\* generate_continuous_mesh emits 2*(rows-1)*(cols-1) top-surface triangles,
\* then 2 bottom triangles, then 2 wall triangles per boundary segment along
\* row 0, row rows-1, column 0 and column cols-1; 12 triangles for the grid
\* [[0,255],[255,0]].
C7_ContinuousFacetCount ==
    LET H == 2 * (Cols - 1)
        V == 2 * (Rows - 1)
    IN  /\ pc \in ContinuousPhases => Rows >= 2 /\ Cols >= 2 /\ k <= 2
        /\ pc = "top" => Len(facets) = 2 * (j * (Cols - 1) + i) + k
        /\ pc = "bottom" => Len(facets) = TopCount + k
        /\ pc = "wall_top" => Len(facets) = TopCount + 2 + 2 * i + k
        /\ pc = "wall_bottom" => Len(facets) = TopCount + 2 + H + 2 * i + k
        /\ pc = "wall_left" => Len(facets) = TopCount + 2 + 2 * H + 2 * j + k
        /\ pc = "wall_right" =>
               Len(facets) = TopCount + 2 + 2 * H + V + 2 * j + k
        /\ (~args.binary /\ Returned) =>
               Len(facets) = TopCount + 2 + 2 * H + 2 * V
        /\ (~args.binary /\ Returned /\ Rows = 2 /\ Cols = 2) =>
               Len(facets) = 12

\* C7 witness: the grid [[0,255],[255,0]] has been built and written
C7_Witness ==
    /\ ~args.binary
    /\ pc = "done"
    /\ Rows = 2 /\ Cols = 2
    /\ Px(0, 0) = 0 /\ Px(0, 1) = 255 /\ Px(1, 0) = 255 /\ Px(1, 1) = 0
    /\ Len(facets) = 12

\* C9: in continuous mode a grid with rows < 2 or cols < 2 makes the run
\* fail with an error before any facet is appended and before the output
\* is opened: the run is at its start or has failed, and nothing was
\* emitted or written.
C9_GridDimensionGuard ==
    (~args.binary /\ (Rows < 2 \/ Cols < 2)) =>
        /\ pc \in {"main", "error"}
        /\ facets = << >>
        /\ file_state = "none"
        /\ file_lines = << >>

\* C9 witness: a continuous run on a one-row grid has failed
C9_Witness ==
    /\ ~args.binary
    /\ Rows = 1 /\ Cols = 2
    /\ pc = "error"

\* one step appends exactly one facet at the end of the facet sequence
AppendsOne ==
    /\ Len(facets') = Len(facets) + 1
    /\ SubSeq(facets', 1, Len(facets)) = facets

\* the names of the sides of SideSeq
SideName == <<"left", "right", "top_row", "bottom_row">>

\* the faces a cell is to emit, in order: "top", "top", "bottom", "bottom",
\* then the name of every exposed side, twice
RECURSIVE WallKinds(_, _, _)
WallKinds(r, c, n) ==
    IF n > 4 THEN << >>
    ELSE (IF Exposed(r, c, SideSeq[n])
          THEN <<SideName[n], SideName[n]>>
          ELSE << >>)
         \o WallKinds(r, c, n + 1)

CellKinds(r, c) ==
    IF SolidCell(r, c)
    THEN <<"top", "top", "bottom", "bottom">> \o WallKinds(r, c, 1)
    ELSE << >>

\* <<r, c, kind>> for every facet of the first n cells of the row-major scan
RECURSIVE ScanOrder(_)
ScanOrder(n) ==
    IF n = 0 THEN << >>
    ELSE LET r == (n - 1) \div Cols
             c == (n - 1) % Cols
             kinds == CellKinds(r, c)
         IN  ScanOrder(n - 1) \o [m \in 1 .. Len(kinds) |-> <<r, c, kinds[m]>>]

InBox(v, r, c) ==
    /\ c * CellW <= v[1] /\ v[1] <= (c + 1) * CellW
    /\ r * CellH <= v[2] /\ v[2] <= (r + 1) * CellH

\* the facet f is a facet of the given face of the box of cell (r, c)
IsFace(f, r, c, kind) ==
    CASE kind = "top" ->
            \A v \in Vertices(f) : InBox(v, r, c) /\ v[3] = args.extrude_height
      [] kind = "bottom" ->
            \A v \in Vertices(f) : InBox(v, r, c) /\ v[3] = 0
      [] OTHER ->
            \E n \in 1 .. 4 : SideName[n] = kind /\ WallOf(f, r, c, SideSeq[n])

BinaryOrder ==
    LET order == ScanOrder(Rows * Cols)
    IN  /\ Len(facets) = Len(order)
        /\ \A n \in DOMAIN facets :
               IsFace(facets[n], order[n][1], order[n][2], order[n][3])

\* continuous mode: the vertex of grid point (r, c)
GridVertex(r, c) ==
    <<c * (args.x_size \div (Cols - 1)), r * (args.y_size \div (Rows - 1)),
      (Px(r, c) * args.extrude_height) \div 255>>

\* facets m + 1 .. m + n of the facet sequence
Range(m, n) == {facets[q] : q \in (m + 1 .. m + n) \cap DOMAIN facets}

ContinuousOrder ==
    LET H == 2 * (Cols - 1)
        V == 2 * (Rows - 1)
        walls == TopCount + 2
    IN  /\ Len(facets) = walls + 2 * H + 2 * V
        /\ \A n \in 1 .. TopCount :
               LET q == (n - 1) \div 2
                   r == q \div (Cols - 1)
                   c == q % (Cols - 1)
               IN  Vertices(facets[n]) \subseteq
                       {GridVertex(r, c), GridVertex(r, c + 1),
                        GridVertex(r + 1, c), GridVertex(r + 1, c + 1)}
        /\ \A f \in Range(TopCount, 2) : Vertices(f) \subseteq Corners
        /\ \A f \in Range(walls, H) : \A v \in Vertices(f) : v[2] = 0
        /\ \A f \in Range(walls + H, H) :
               \A v \in Vertices(f) : v[2] = args.y_size
        /\ \A f \in Range(walls + 2 * H, V) : \A v \in Vertices(f) : v[1] = 0
        /\ \A f \in Range(walls + 2 * H + V, V) :
               \A v \in Vertices(f) : v[1] = args.x_size

Millionths(v) == <<1000000 * v[1], 1000000 * v[2], 1000000 * v[3]>>

\* the block of lines b is the facet block of facet f
IsBlockOf(b, f) ==
    /\ Len(b) = 7
    /\ b[1] = <<"  facet normal", Millionths(f[1])>>
    /\ b[2] = "    outer loop"
    /\ \A m \in 1 .. 3 : b[2 + m] = <<"      vertex", Millionths(f[1 + m])>>
    /\ b[6] = "    endloop"
    /\ b[7] = "  endfacet"

\* what has been written: the header, one block per facet in sequence
\* order, and at the end the footer
Serialized ==
    /\ file_state = "none" => file_lines = << >> /\ pc # "done"
    /\ file_state # "none" =>
        /\ Returned
        /\ file_lines[1] = "solid model"
        /\ Len(file_lines) <= Len(facets) + 2
        /\ \A n \in 1 .. Len(file_lines) - 1 :
               IF n <= Len(facets)
               THEN IsBlockOf(file_lines[n + 1], facets[n])
               ELSE file_lines[n + 1] = "endsolid model"
        /\ (pc = "done") <=> (Len(file_lines) = Len(facets) + 2)
        /\ (pc = "done") <=> (file_state = "closed")

C10_Order ==
    /\ (args.binary /\ pc = "write") => BinaryOrder
    /\ (~args.binary /\ pc = "write") => ContinuousOrder
    /\ Serialized

C10_Step ==
    /\ facets' = facets \/ AppendsOne
    /\ file_lines' # file_lines =>
        /\ facets' = facets
        /\ Len(file_lines') = Len(file_lines) + 1
        /\ SubSeq(file_lines', 1, Len(file_lines)) = file_lines

\* C10: the facet sequence changes only by appending one facet at its end;
\* binary mode emits the facets of the solid cells in row-major order of the
\* cells, and within a cell top face, bottom face, left wall, right wall,
\* top-row wall, bottom-row wall (unexposed walls skipped); continuous mode
\* emits the top-surface triangles (row-major quads), then the 2 bottom
\* triangles, then the walls of row 0, row rows-1, column 0, column cols-1;
\* the writer writes one facet block per facet, in sequence order, between
\* 'solid model' and 'endsolid model'.
C10_EmissionOrder == [] C10_Order /\ [][C10_Step]_vars

\* C10 witness: a binary run over two adjacent solid cells (the wall
\* between them skipped) has written its 20 facets and the footer
C10_Witness ==
    /\ args.binary
    /\ pc = "done"
    /\ Rows = 1 /\ Cols = 2
    /\ SolidCell(0, 0) /\ SolidCell(0, 1)
    /\ Len(facets) = 20
    /\ Len(file_lines) = 22
    /\ file_lines[22] = "endsolid model"

====
